---- MODULE Spec2Model ----
(***************************************************************************)
(* Model of the API Gateway Lambda authorizer (src/lambda/authorizer).     *)
(*                                                                         *)
(* Python strings that the code takes apart (the Authorization header and  *)
(* the method ARN) are sequences of symbols: one symbol per character for  *)
(* the "Bearer " scheme prefix and for the separators ":" and "/", one     *)
(* symbol for each separator-free stretch of text.  Identifiers that the   *)
(* code only compares or uses as dictionary keys (client ids, tenant ids,  *)
(* API key values, key ids) are TLA+ strings.  Python dicts are functions  *)
(* whose DOMAIN is the set of keys.                                        *)
(***************************************************************************)
EXTENDS Integers, Sequences, FiniteSets, TLC

\* ------------------------------------------------------------------ values

\* Python's None (also what dict.get returns for an absent key).
None == "None"

\* Python truthiness of an optional string: None and "" are falsy.
Truthy(v) == v # None /\ v # ""

\* The empty dict {}.
EmptyMap == [k \in {} |-> None]

\* dict.get(key, default)
DictGet(d, key, default) == IF key \in DOMAIN d THEN d[key] ELSE default

\* ----------------------------------------------------------------- strings

\* str.lower() on one symbol; only the letters of the scheme have two cases.
Lower(ch) ==
    CASE ch = "B" -> "b"
      [] ch = "E" -> "e"
      [] ch = "A" -> "a"
      [] ch = "R" -> "r"
      [] OTHER -> ch

StrLower(s) == [i \in 1..Len(s) |-> Lower(s[i])]

StartsWith(s, prefix) ==
    /\ Len(s) >= Len(prefix)
    /\ SubSeq(s, 1, Len(prefix)) = prefix

\* The literal "bearer " of line 156.
BearerPrefix == <<"b", "e", "a", "r", "e", "r", " ">>

\* Index of the first occurrence of sep in s, 0 when there is none.
IndexOf(s, sep) ==
    LET hits == {i \in 1..Len(s) : s[i] = sep}
    IN  IF hits = {} THEN 0
        ELSE CHOOSE i \in hits : \A j \in hits : i <= j

\* str.split(sep): always at least one part, empty parts are kept.
RECURSIVE Split(_, _)
Split(s, sep) ==
    LET i == IndexOf(s, sep)
    IN  IF i = 0 THEN <<s>>
        ELSE <<SubSeq(s, 1, i - 1)>> \o Split(SubSeq(s, i + 1, Len(s)), sep)

\* sep.join(parts)
RECURSIVE Join(_, _)
Join(parts, sep) ==
    IF Len(parts) = 0 THEN <<>>
    ELSE IF Len(parts) = 1 THEN parts[1]
    ELSE parts[1] \o <<sep>> \o Join(Tail(parts), sep)

\* ------------------------------------------------------ program constants

_CACHE_TTL_SECONDS == 300

\* The two module-level caches, named by the parameter they load.
CacheNames == {"client_tenant", "tenant_api_key"}

\* --------------------------------------------------------------- bounds

\* Clock reading when the process starts.
InitTime == 1000

\* Number of clock advances explored.
MaxTicks == 2

\* When requests are interleaved: requests in progress at the same time,
\* _get_ssm_json calls they make in all, and times a whole TTL goes by.
NumThreads == 2
MaxCalls == 2
MaxLapses == 1

\* Orders created by the order function.
MaxCreated == 1

\* Amounts by which the clock advances between requests: they put a call
\* one second before, exactly at, and after the expiry of a cached mapping.
TickSteps == {1, _CACHE_TTL_SECONDS - 1}

\* ------------------------------------------------------------ input data

\* Contents the parameter store can hold at CLIENT_TENANT_MAP_SSM_PATH:
\* JSON objects {cognito_client_id: tenant_id}.
ClientTenantMaps ==
    { EmptyMap,
      ("abc123" :> "tenantA") @@ ("sub1" :> ""),
      ("abc123" :> "tenantB") @@ ("sub1" :> "tenantA") }

\* Contents the parameter store can hold at TENANT_MAP_SSM_PATH:
\* JSON objects {tenant_id: api_key_value}.
TenantApiKeyMaps ==
    { EmptyMap,
      ("tenantA" :> "key-789") @@ ("tenantB" :> ""),
      ("tenantA" :> "key-111") @@ ("tenantB" :> "key-222") }

StoreContents(path) ==
    IF path = "client_tenant" THEN ClientTenantMaps ELSE TenantApiKeyMaps

\* Key sets the signer can publish at JWKS_URL: {"keys": [{"kid": ..}, ..]},
\* before and after a key rotation.
Jwk(kid, material) == [kid |-> kid, n |-> material]

KeySets ==
    { [keys |-> <<Jwk("k1", "pub1")>>],
      [keys |-> <<Jwk("k2", "pub2"), Jwk("k1", "pub1")>>] }

\* Expiry used by the tokens that are still valid when the process stops.
FarFuture == InitTime + (MaxTicks + 1) * _CACHE_TTL_SECONDS

\* A JWT: its header, the key that produced its signature and its payload.
Jwt(header, signedBy, claims) ==
    [header |-> header, signedBy |-> signedBy, claims |-> claims]

Rs256(kid) == ("alg" :> "RS256") @@ ("kid" :> kid)

AccessClaims(client_id, exp) ==
    [client_id |-> client_id, sub |-> "user1", token_use |-> "access", exp |-> exp]

\* The well-formed tokens, by the symbol that stands for their text.
TokenTable ==
    [ jwtGood     |-> Jwt(Rs256("k1"), "pub1", AccessClaims("abc123", FarFuture)),
      jwtSub      |-> Jwt(Rs256("k1"), "pub1",
                          [sub |-> "sub1", token_use |-> "access", exp |-> FarFuture]),
      jwtEmptyId  |-> Jwt(Rs256("k1"), "pub1",
                          [client_id |-> "", sub |-> "sub1", token_use |-> "access"]),
      jwtNoId     |-> Jwt(Rs256("k1"), "pub1",
                          [token_use |-> "access", exp |-> FarFuture]),
      jwtIdToken  |-> Jwt(Rs256("k1"), "pub1",
                          [client_id |-> "abc123", sub |-> "user1",
                           token_use |-> "id", exp |-> FarFuture]),
      jwtExpiring |-> Jwt(Rs256("k1"), "pub1", AccessClaims("abc123", InitTime + 1)),
      jwtForged   |-> Jwt(Rs256("k1"), "pubX", AccessClaims("abc123", FarFuture)),
      jwtRotated  |-> Jwt(Rs256("k2"), "pub2", AccessClaims("abc123", FarFuture)),
      jwtNoKid    |-> Jwt("alg" :> "RS256", "pub1", AccessClaims("abc123", FarFuture)) ]

TokenSymbols == DOMAIN TokenTable

\* Authorization header values.
Scheme(word) == word \o <<" ">>

Bearer == <<"B", "e", "a", "r", "e", "r">>
BearerUpper == <<"B", "E", "A", "R", "E", "R">>
BearerLower == <<"b", "e", "a", "r", "e", "r">>

Credentials ==
    { <<>>, Scheme(Bearer), Scheme(BearerUpper), Bearer, <<"garbage">>,
      <<"jwtGood">>, Scheme(BearerLower) \o <<"jwtSub">> }
    \cup { Scheme(Bearer) \o <<t>> : t \in TokenSymbols }

\* Method ARNs: arn:aws:execute-api:region:account:apiId/stage/METHOD/path.
FullArn ==
    <<"arn", ":", "aws", ":", "execute-api", ":", "us-east-1", ":",
      "123456789012", ":", "api1", "/", "prod", "/", "GET", "/", "products">>

\* The events API Gateway can deliver; either field may be absent.
Events ==
    { [authorizationToken |-> c, methodArn |-> FullArn] : c \in Credentials }
    \cup { [methodArn |-> FullArn], [authorizationToken |-> Scheme(Bearer) \o <<"jwtGood">>] }

\* ------------------------------------------------------- Mapping Cache

\* A module-level cache dict as created at lines 39-40.
NewCache == [data |-> EmptyMap, expires_at |-> 0]

\* Truthiness of a dict: non-empty.
DictTruthy(d) == DOMAIN d # {}

\* CacheFresh without the comparison with expires_at.
CacheFresh_NoExpiry(cache, t) == DictTruthy(cache.data)

\* CacheFresh with the comparison of line 48 written <= instead of <.
CacheFresh_Inclusive(cache, t) == DictTruthy(cache.data) /\ t <= cache.expires_at

\* Line 48: the cached mapping is served without a store call.
CacheFresh(cache, t) == DictTruthy(cache.data) /\ t < cache.expires_at

\* What ssm_client.get_parameter + json.loads produce: a mapping, or an
\* exception (network, permission, parse).
LoadOk(mapping) == [ok |-> TRUE, value |-> mapping]
LoadFailed == [ok |-> FALSE, value |-> EmptyMap]

\* StoreLoaded keeping the mapping held when the one loaded is empty.
StoreLoaded_KeepsNonEmpty(cache, data, t) ==
    [data |-> IF DictTruthy(data) THEN data ELSE cache.data,
     expires_at |-> t + _CACHE_TTL_SECONDS]

\* StoreLoaded without line 59: the mapping is replaced, the expiry is not.
StoreLoaded_KeepsExpiry(cache, data, t) ==
    [data |-> data, expires_at |-> cache.expires_at]

\* Lines 58-59: the two fields written by a successful load started at t.
StoreLoaded(cache, data, t) ==
    [data |-> data, expires_at |-> t + _CACHE_TTL_SECONDS]

\* StaleOrEmpty falling back on a built-in mapping instead of {}.
StaleOrEmpty_Default(cache) ==
    IF DictTruthy(cache.data) THEN cache.data ELSE "abc123" :> "tenantA"

\* StaleOrEmpty as "return {}": a failed load serves nothing.
StaleOrEmpty_AlwaysEmpty(cache) == EmptyMap

\* Line 56: cache["data"] or {}
StaleOrEmpty(cache) == IF DictTruthy(cache.data) THEN cache.data ELSE EmptyMap

\* _get_ssm_json called at clock reading t, load being the outcome of the
\* store call should one be made.  Yields the returned mapping, the cache
\* afterwards and which of the three exits was taken.
_get_ssm_json(cache, t, load) ==
    IF CacheFresh(cache, t)
    THEN [ret |-> cache.data, cache |-> cache, kind |-> "hit"]
    ELSE IF ~load.ok
    THEN [ret |-> StaleOrEmpty(cache), cache |-> cache, kind |-> "failed"]
    ELSE [ret |-> load.value, cache |-> StoreLoaded(cache, load.value, t),
          kind |-> "loaded"]

\* ------------------------------------------------------- Key Set Cache

\* functools.lru_cache(maxsize=1) around a function of no arguments: empty
\* until a call returns normally, then that value for good.
NoJwks == [cached |-> FALSE, value |-> [keys |-> <<>>]]

\* _get_jwks without @lru_cache: every call goes to the network.
_get_jwks_NoMemo(memo, fetch) ==
    IF fetch.ok
    THEN [ok |-> TRUE, value |-> fetch.value,
          memo |-> [cached |-> TRUE, value |-> fetch.value], kind |-> "fetched"]
    ELSE [ok |-> FALSE, value |-> memo.value, memo |-> memo, kind |-> "failed"]

\* _get_jwks remembering a failed fetch as an empty key set.
_get_jwks_CachesFailure(memo, fetch) ==
    IF memo.cached
    THEN [ok |-> TRUE, value |-> memo.value, memo |-> memo, kind |-> "cached"]
    ELSE IF fetch.ok
    THEN [ok |-> TRUE, value |-> fetch.value,
          memo |-> [cached |-> TRUE, value |-> fetch.value], kind |-> "fetched"]
    ELSE [ok |-> FALSE, value |-> memo.value,
          memo |-> [cached |-> TRUE, value |-> [keys |-> <<>>]], kind |-> "failed"]

\* _get_jwks: fetch is the outcome of urlopen + json.loads if it is made.
_get_jwks(memo, fetch) ==
    IF memo.cached
    THEN [ok |-> TRUE, value |-> memo.value, memo |-> memo, kind |-> "cached"]
    ELSE IF fetch.ok
    THEN [ok |-> TRUE, value |-> fetch.value,
          memo |-> [cached |-> TRUE, value |-> fetch.value], kind |-> "fetched"]
    ELSE [ok |-> FALSE, value |-> memo.value, memo |-> memo, kind |-> "failed"]

\* Lines 83-86: the first entry of jwks.get("keys", []) with the given kid.
FindKey(jwks, kid) ==
    LET keys == DictGet(jwks, "keys", <<>>)
        hits == {i \in 1..Len(keys) : keys[i].kid = kid}
    IN  IF hits = {} THEN [ok |-> FALSE, key |-> None]
        ELSE [ok |-> TRUE,
              key |-> keys[CHOOSE i \in hits : \A j \in hits : i <= j].n]

\* _get_public_key(kid)
_get_public_key(kid, memo, fetch) ==
    LET j == _get_jwks(memo, fetch)
        f == FindKey(j.value, kid)
    IN  IF ~j.ok
        THEN [ok |-> FALSE, key |-> None, memo |-> j.memo, jwks |-> j.kind,
              error |-> "KeySetUnavailable"]
        ELSE IF ~f.ok
        THEN [ok |-> FALSE, key |-> None, memo |-> j.memo, jwks |-> j.kind,
              error |-> "KeyNotFound"]
        ELSE [ok |-> TRUE, key |-> f.key, memo |-> j.memo, jwks |-> j.kind,
              error |-> None]

\* ------------------------------------------------------ Token Validator

\* jwt.get_unverified_header succeeds on the text of a well-formed token.
WellFormed(token) == Len(token) = 1 /\ token[1] \in TokenSymbols

\* jwt.decode(token, key, algorithms=["RS256"]): the signature part.
SignatureOk(jwt, public_key) ==
    jwt.header["alg"] = "RS256" /\ jwt.signedBy = public_key

\* verify_exp: an "exp" claim, when present, must lie after the clock.
NotExpired(claims, t) == "exp" \in DOMAIN claims => claims["exp"] > t

\* TokenUseOk without the check of line 101: ID tokens pass.
TokenUseOk_Any(claims) == TRUE

\* Line 101
TokenUseOk(claims) == DictGet(claims, "token_use", None) = "access"

Invalid(error, memo, jwks) ==
    [ok |-> FALSE, claims |-> EmptyMap, error |-> error, memo |-> memo, jwks |-> jwks]

\* _validate_token at clock reading t: the claims, or the exception raised;
\* memo is the key-set memo afterwards and jwks what _get_jwks did.
_validate_token(token, t, memo, fetch) ==
    IF ~WellFormed(token) THEN Invalid("DecodeError", memo, "none")
    ELSE
    LET jwt == TokenTable[token[1]]
    IN  IF "kid" \notin DOMAIN jwt.header THEN Invalid("KeyError", memo, "none")
        ELSE
        LET k == _get_public_key(jwt.header["kid"], memo, fetch)
        IN  IF ~k.ok THEN Invalid(k.error, k.memo, k.jwks)
            ELSE IF ~SignatureOk(jwt, k.key)
            THEN Invalid("InvalidSignature", k.memo, k.jwks)
            ELSE IF ~NotExpired(jwt.claims, t)
            THEN Invalid("ExpiredSignature", k.memo, k.jwks)
            ELSE IF ~TokenUseOk(jwt.claims)
            THEN Invalid("token_use", k.memo, k.jwks)
            ELSE [ok |-> TRUE, claims |-> jwt.claims, error |-> None,
                  memo |-> k.memo, jwks |-> k.jwks]

\* ----------------------------------------------------- Decision Builder

\* WildcardResource keeping the stage: apiId/stage/*.
WildcardResource_Stage(resource) ==
    LET arn_parts == Split(resource, ":")
    IN  IF Len(arn_parts) >= 6
        THEN LET path == Split(arn_parts[6], "/")
                 stage_part == IF Len(path) >= 2 THEN path[1] \o <<"/">> \o path[2]
                               ELSE path[1]
             IN  Join(SubSeq(arn_parts, 1, 5), ":") \o <<":">> \o stage_part \o <<"/", "*">>
        ELSE resource

\* Lines 114-119
WildcardResource(resource) ==
    LET arn_parts == Split(resource, ":")
    IN  IF Len(arn_parts) >= 6
        THEN LET api_part == Split(arn_parts[6], "/")[1]
             IN  Join(SubSeq(arn_parts, 1, 5), ":") \o <<":">> \o api_part \o <<"/", "*">>
        ELSE resource

\* Optional without the "if": the member is set whatever the argument.
Optional_Always(key, value) == key :> value

\* Lines 135-138: the members set only for a truthy argument.
Optional(key, value) == IF Truthy(value) THEN key :> value ELSE EmptyMap

\* _build_policy setting usageIdentifierKey for Allow only.
_build_policy_KeyOnlyForAllow(principal_id, effect, resource, usage_key, tenant_id) ==
    [ principalId |-> principal_id,
      policyDocument |->
          [ Version |-> "2012-10-17",
            Statement |-> << [ Action |-> "execute-api:Invoke",
                               Effect |-> effect,
                               Resource |-> WildcardResource(resource) ] >> ],
      context |-> Optional("tenant_id", tenant_id) ]
    @@ (IF effect = "Allow" THEN Optional("usageIdentifierKey", usage_key) ELSE EmptyMap)

\* Lines 107-139
_build_policy(principal_id, effect, resource, usage_key, tenant_id) ==
    [ principalId |-> principal_id,
      policyDocument |->
          [ Version |-> "2012-10-17",
            Statement |-> << [ Action |-> "execute-api:Invoke",
                               Effect |-> effect,
                               Resource |-> WildcardResource(resource) ] >> ],
      context |-> Optional("tenant_id", tenant_id) ]
    @@ Optional("usageIdentifierKey", usage_key)

\* ------------------------------------------------------------- state

VARIABLES
    now,                    \* time.time()
    ticks,                  \* clock advances so far
    _client_tenant_cache,   \* line 40
    _tenant_api_key_cache,  \* line 39
    jwks_memo,              \* the lru_cache of _get_jwks
    response,               \* what the latest lambda_handler call did
    installed,              \* per cache, when the call that loaded its data began
    threads,                \* interleaved requests: where each is in _get_ssm_json
    written,                \* per cache field, the call whose load wrote it
    loads,                  \* per cache, the mappings interleaved requests loaded
    calls,                  \* _get_ssm_json calls started by interleaved requests
    build,                  \* a call of _build_policy on its own: arguments, result
    table,                  \* the DynamoDB table of the downstream functions
    down                    \* what the latest downstream invocation did

vars == <<now, ticks, _client_tenant_cache, _tenant_api_key_cache, jwks_memo,
          response, installed, threads, written, loads, calls, build, table, down>>

\* The state of requests handled one at a time / of interleaved requests.
seqVars == <<jwks_memo, response, installed>>
concVars == <<threads, written, loads, calls>>

\* The state of a function called on its own.
pureVars == <<build>>

\* The state of the downstream functions (catalog, order).
downVars == <<table, down>>

\* The authorizer's own state.
authVars == <<now, ticks, _client_tenant_cache, _tenant_api_key_cache,
              seqVars, concVars>>

\* Cache with both getters handed the same dict.
Cache_Shared(c) == _client_tenant_cache

\* Lines 63-70: the dict each getter hands to _get_ssm_json.
Cache(c) ==
    IF c = "client_tenant" THEN _client_tenant_cache ELSE _tenant_api_key_cache

\* _get_ssm_json was not called.
NoGet == [kind |-> "none", ret |-> EmptyMap, store |-> EmptyMap, store_calls |-> 0]

\* The record kept of one _get_ssm_json call g: its exit, what it returned,
\* what the store call produced and how many store calls it made.
GetRecord(g, load) ==
    [kind |-> g.kind, ret |-> g.ret,
     store |-> IF g.kind = "loaded" THEN load.value ELSE EmptyMap,
     store_calls |-> IF g.kind = "hit" THEN 0 ELSE 1]

NoGets == [c \in CacheNames |-> NoGet]

NoPolicy == [principalId |-> None]

NoResponse ==
    [kind |-> "none", exit |-> "none", policy |-> NoPolicy, event |-> EmptyMap,
     token_str |-> <<>>, at |-> 0, jwks |-> "none", error |-> None,
     fault |-> None, gets |-> NoGets]

\* The part of a response that says which request it answers: the event, the
\* credential extracted from it and the clock reading.
Request(event, token_str, t) == [event |-> event, token_str |-> token_str, at |-> t]

\* raise Exception("Unauthorized") at the named step; fault is the message of
\* the exception the caller gets, error is what line 165 prints.
Raised(exit, req, jwks, error) ==
    [kind |-> "raised", exit |-> exit, policy |-> NoPolicy, event |-> req.event,
     token_str |-> req.token_str, at |-> req.at, jwks |-> jwks, error |-> error,
     fault |-> "Unauthorized", gets |-> NoGets]

\* return policy at the named step.
Returned(exit, policy, req, jwks, gets) ==
    [kind |-> "returned", exit |-> exit, policy |-> policy, event |-> req.event,
     token_str |-> req.token_str, at |-> req.at, jwks |-> jwks, error |-> None,
     fault |-> None, gets |-> gets]

Threads == 1..NumThreads

\* No field read yet.
NoTag == -1

\* A request that is not inside _get_ssm_json; ret is what its last call
\* returned.
Idle(ret) ==
    [pc |-> "idle", c |-> "client_tenant", t |-> 0, data |-> EmptyMap,
     id |-> 0, obs |-> [data |-> NoTag, expires_at |-> NoTag], ret |-> ret]

\* No call of _build_policy on its own.
NoBuild ==
    [done |-> FALSE, policy |-> NoPolicy,
     args |-> [principal_id |-> None, effect |-> None, resource |-> <<>>,
               usage_key |-> None, tenant_id |-> None]]

\* No load has written the cache's data.
NeverInstalled == 0

\* The record of when the data of cache c was loaded, after a
\* _get_ssm_json call g on it that began at clock reading t.
Installed(c, g, t) == [installed EXCEPT ![c] = IF g.kind = "loaded" THEN t ELSE @]

\* The authorizer process after its module is loaded.
ProcessInit ==
    /\ now = InitTime
    /\ ticks = 0
    /\ _client_tenant_cache = NewCache
    /\ _tenant_api_key_cache = NewCache
    /\ jwks_memo = NoJwks
    /\ response = NoResponse
    /\ installed = [c \in CacheNames |-> NeverInstalled]
    /\ threads = [i \in Threads |-> Idle(EmptyMap)]
    /\ written = [c \in CacheNames |-> [data |-> 0, expires_at |-> 0]]
    /\ loads = [c \in CacheNames |-> {}]
    /\ calls = 0

\* No downstream invocation yet.
NoDown ==
    [handler |-> "none", event |-> EmptyMap, invoked |-> FALSE, tenant_id |-> None,
     reads |-> {}, raised |-> None,
     response |-> [statusCode |-> 0, body |-> EmptyMap]]

Init ==
    /\ ProcessInit
    /\ build = NoBuild
    /\ table = {}
    /\ down = NoDown

\* ------------------------------------------------------ the environment

\* Outcomes of the key-set fetch, when one is made.
FetchOutcomes(memo) ==
    IF memo.cached THEN {[ok |-> FALSE, value |-> memo.value]}
    ELSE {[ok |-> FALSE, value |-> memo.value]}
         \cup {[ok |-> TRUE, value |-> ks] : ks \in KeySets}

\* Outcomes of the parameter-store call for a path, when one is made.
LoadOutcomes(path, cache, t) ==
    IF CacheFresh(cache, t) THEN {LoadFailed}
    ELSE {LoadFailed} \cup {LoadOk(m) : m \in StoreContents(path)}

\* Time passes between two requests.
Tick ==
    /\ ticks < MaxTicks
    /\ \E d \in TickSteps : now' = now + d
    /\ ticks' = ticks + 1
    /\ UNCHANGED <<_client_tenant_cache, _tenant_api_key_cache, seqVars, pureVars, downVars, concVars>>

\* --------------------------------------------- Authorization Entry Point

\* ExtractCredential comparing the scheme without .lower().
ExtractCredential_CaseSensitive(event) ==
    LET token_str == DictGet(event, "authorizationToken", <<>>)
    IN  IF StartsWith(token_str, Scheme(Bearer))
        THEN SubSeq(token_str, 8, Len(token_str))
        ELSE token_str

\* Lines 153, 156-157
ExtractCredential(event) ==
    LET token_str == DictGet(event, "authorizationToken", <<>>)
    IN  IF StartsWith(StrLower(token_str), BearerPrefix)
        THEN SubSeq(token_str, 8, Len(token_str))
        ELSE token_str

\* Line 154
MethodArn(event) == DictGet(event, "methodArn", <<"*">>)

\* CallerIdentity preferring the subject claim.
CallerIdentity_SubFirst(claims) ==
    IF Truthy(DictGet(claims, "sub", None))
    THEN claims["sub"]
    ELSE DictGet(claims, "client_id", "")

\* Line 169: claims.get("client_id") or claims.get("sub", "")
CallerIdentity(claims) ==
    IF Truthy(DictGet(claims, "client_id", None))
    THEN claims["client_id"]
    ELSE DictGet(claims, "sub", "")

\* ValidationFailure answering with a Deny policy instead of raising.
ValidationFailure_Deny(req, method_arn, v) ==
    Returned("ValidateToken", _build_policy("unknown", "Deny", method_arn, None, None),
             req, v.jwks, NoGets)

\* ValidationFailure raising with the validator's own message.
ValidationFailure_Leaks(req, method_arn, v) ==
    [Raised("ValidateToken", req, v.jwks, v.error) EXCEPT !.fault = v.error]

\* Lines 164-166: what a failed validation v turns into.
ValidationFailure(req, method_arn, v) ==
    Raised("ValidateToken", req, v.jwks, v.error)

\* UnknownCaller that never names the caller.
UnknownCaller_AlwaysUnknown(client_id, method_arn) ==
    _build_policy("unknown", "Deny", method_arn, None, None)

\* Lines 173-175
UnknownCaller(client_id, method_arn) ==
    _build_policy(IF Truthy(client_id) THEN client_id ELSE "unknown",
                  "Deny", method_arn, None, None)

\* UnmappedTenant passing tenant_id on to the policy context.
UnmappedTenant_TenantInContext(tenant_id, method_arn) ==
    _build_policy(tenant_id, "Deny", method_arn, None, tenant_id)

\* Lines 183-185
UnmappedTenant(tenant_id, method_arn) ==
    _build_policy(tenant_id, "Deny", method_arn, None, None)

\* Authorized without the tenant_id keyword argument.
Authorized_NoTenantContext(tenant_id, api_key_value, method_arn) ==
    _build_policy(tenant_id, "Allow", method_arn, api_key_value, None)

\* Lines 188-189
Authorized(tenant_id, api_key_value, method_arn) ==
    _build_policy(tenant_id, "Allow", method_arn, api_key_value, tenant_id)

lambda_handler ==
    /\ UNCHANGED <<concVars, pureVars, downVars>>
    /\ \E event \in Events :
         LET token_str == ExtractCredential(event)
             method_arn == MethodArn(event)
             req == Request(event, token_str, now)
         IN
         IF token_str = <<>>
         THEN /\ response' = Raised("ExtractCredential", req, "none", None)
              /\ UNCHANGED <<now, ticks, _client_tenant_cache,
                             _tenant_api_key_cache, jwks_memo, installed>>
         ELSE
         \E fetch \in FetchOutcomes(jwks_memo) :
           LET v == _validate_token(token_str, now, jwks_memo, fetch)
           IN
           /\ jwks_memo' = v.memo
           /\ UNCHANGED <<now, ticks>>
           /\ IF ~v.ok
              THEN /\ response' = ValidationFailure(req, method_arn, v)
                   /\ UNCHANGED <<_client_tenant_cache, _tenant_api_key_cache, installed>>
              ELSE
              \E load1 \in LoadOutcomes("client_tenant", _client_tenant_cache, now) :
                LET client_id == CallerIdentity(v.claims)
                    g1 == _get_ssm_json(_client_tenant_cache, now, load1)
                    tenant_id == DictGet(g1.ret, client_id, None)
                    r1 == GetRecord(g1, load1)
                IN
                /\ _client_tenant_cache' = g1.cache
                /\ IF ~Truthy(tenant_id)
                   THEN /\ response' =
                             Returned("ResolveTenant",
                                      UnknownCaller(client_id, method_arn),
                                      req, v.jwks,
                                      [NoGets EXCEPT !["client_tenant"] = r1])
                        /\ installed' = Installed("client_tenant", g1, now)
                        /\ UNCHANGED _tenant_api_key_cache
                   ELSE
                   \E load2 \in LoadOutcomes("tenant_api_key", _tenant_api_key_cache, now) :
                     LET g2 == _get_ssm_json(_tenant_api_key_cache, now, load2)
                         api_key_value == DictGet(g2.ret, tenant_id, None)
                         gets == [NoGets EXCEPT !["client_tenant"] = r1,
                                                !["tenant_api_key"] = GetRecord(g2, load2)]
                     IN
                     /\ _tenant_api_key_cache' = g2.cache
                     /\ installed' =
                          [c \in CacheNames |->
                              IF (IF c = "client_tenant" THEN g1 ELSE g2).kind = "loaded"
                              THEN now ELSE installed[c]]
                     /\ response' =
                          IF ~Truthy(api_key_value)
                          THEN Returned("ResolveRateLimitKey",
                                        UnmappedTenant(tenant_id, method_arn),
                                        req, v.jwks, gets)
                          ELSE Returned("Allow",
                                        Authorized(tenant_id, api_key_value, method_arn),
                                        req, v.jwks, gets)

Next == Tick \/ lambda_handler

Spec == Init /\ [][Next]_vars

\* ------------------------------------- _get_ssm_json, statement by statement

\* Requests handled at the same time share the two cache dicts.  Each
\* reads and writes them one dict access at a time, in the order of the
\* source text; between two accesses any other request may run.

SetCache(c, cache) ==
    /\ _client_tenant_cache' = IF c = "client_tenant" THEN cache ELSE _client_tenant_cache
    /\ _tenant_api_key_cache' = IF c = "tenant_api_key" THEN cache ELSE _tenant_api_key_cache

At(i, pc) == threads[i].pc = pc

Goto(i, pc) == threads' = [threads EXCEPT ![i].pc = pc]

\* Lines 45-47: a request enters _get_ssm_json for one of the caches and
\* reads the clock.  Requests are interchangeable, so a new call takes the
\* first free slot.
Call(i) ==
    /\ At(i, "idle")
    /\ \A j \in 1..(i - 1) : ~At(j, "idle")
    /\ calls < MaxCalls
    /\ calls' = calls + 1
    /\ \E c \in CacheNames :
          threads' = [threads EXCEPT ![i] =
              [pc |-> "L48_data", c |-> c, t |-> now, data |-> EmptyMap,
               id |-> calls + 1, obs |-> [data |-> NoTag, expires_at |-> NoTag],
               ret |-> EmptyMap]]
    /\ UNCHANGED <<now, ticks, _client_tenant_cache, _tenant_api_key_cache,
                   seqVars, pureVars, downVars, written, loads>>

\* Line 48, left operand: cache["data"]
ReadData(i) ==
    LET th == threads[i]
    IN  /\ At(i, "L48_data")
        /\ threads' = [threads EXCEPT
              ![i].obs.data = written[th.c].data,
              ![i].pc = IF DictTruthy(Cache(th.c).data) THEN "L48_expires" ELSE "L52"]
        /\ UNCHANGED <<now, ticks, _client_tenant_cache, _tenant_api_key_cache,
                       seqVars, pureVars, downVars, written, loads, calls>>

\* Line 48, right operand: now < cache["expires_at"]
ReadExpiry(i) ==
    LET th == threads[i]
    IN  /\ At(i, "L48_expires")
        /\ threads' = [threads EXCEPT
              ![i].obs.expires_at = written[th.c].expires_at,
              ![i].pc = IF th.t < Cache(th.c).expires_at THEN "L49" ELSE "L52"]
        /\ UNCHANGED <<now, ticks, _client_tenant_cache, _tenant_api_key_cache,
                       seqVars, pureVars, downVars, written, loads, calls>>

\* Line 49: return cache["data"]
ReturnCached(i) ==
    /\ At(i, "L49")
    /\ threads' = [threads EXCEPT ![i] = Idle(Cache(threads[i].c).data)]
    /\ UNCHANGED <<now, ticks, _client_tenant_cache, _tenant_api_key_cache,
                   seqVars, pureVars, downVars, written, loads, calls>>

\* Lines 52-55: the store call and json.loads, which succeed or raise.
Load(i) ==
    /\ At(i, "L52")
    /\ \E load \in {LoadFailed} \cup {LoadOk(m) : m \in StoreContents(threads[i].c)} :
          /\ threads' = [threads EXCEPT
                ![i].data = load.value,
                ![i].pc = IF load.ok THEN "L58" ELSE "L56"]
          /\ loads' = IF load.ok
                      THEN [loads EXCEPT ![threads[i].c] = @ \cup {load.value}]
                      ELSE loads
    /\ UNCHANGED <<now, ticks, _client_tenant_cache, _tenant_api_key_cache,
                   seqVars, pureVars, downVars, written, calls>>

\* Line 56: return cache["data"] or {}
ReturnStale(i) ==
    /\ At(i, "L56")
    /\ threads' = [threads EXCEPT ![i] = Idle(StaleOrEmpty(Cache(threads[i].c)))]
    /\ UNCHANGED <<now, ticks, _client_tenant_cache, _tenant_api_key_cache,
                   seqVars, pureVars, downVars, written, loads, calls>>

\* WriteData that leaves a non-empty cached mapping in place.
WriteData_FirstWins(i) ==
    LET th == threads[i]
    IN  /\ At(i, "L58")
        /\ SetCache(th.c, IF DictTruthy(Cache(th.c).data) THEN Cache(th.c)
                          ELSE [Cache(th.c) EXCEPT !.data = th.data])
        /\ written' = [written EXCEPT ![th.c].data = th.id]
        /\ Goto(i, "L59")
        /\ UNCHANGED <<now, ticks, seqVars, pureVars, downVars, loads, calls>>

\* Line 58: cache["data"] = data
WriteData(i) ==
    LET th == threads[i]
    IN  /\ At(i, "L58")
        /\ SetCache(th.c, [Cache(th.c) EXCEPT !.data = th.data])
        /\ written' = [written EXCEPT ![th.c].data = th.id]
        /\ Goto(i, "L59")
        /\ UNCHANGED <<now, ticks, seqVars, pureVars, downVars, loads, calls>>

\* Lines 59-60: cache["expires_at"] = now + _CACHE_TTL_SECONDS; return data
WriteExpiry(i) ==
    LET th == threads[i]
    IN  /\ At(i, "L59")
        /\ SetCache(th.c, [Cache(th.c) EXCEPT
                              !.expires_at = StoreLoaded(Cache(th.c), th.data, th.t).expires_at])
        /\ written' = [written EXCEPT ![th.c].expires_at = th.id]
        /\ threads' = [threads EXCEPT ![i] = Idle(th.data)]
        /\ UNCHANGED <<now, ticks, seqVars, pureVars, downVars, loads, calls>>

\* A whole TTL goes by while requests are in progress.
Lapse ==
    /\ ticks < MaxLapses
    /\ now' = now + _CACHE_TTL_SECONDS
    /\ ticks' = ticks + 1
    /\ UNCHANGED <<_client_tenant_cache, _tenant_api_key_cache, seqVars, pureVars, downVars, concVars>>

ConcNext ==
    \/ Lapse
    \/ \E i \in Threads :
          \/ Call(i)
          \/ ReadData(i)
          \/ ReadExpiry(i)
          \/ ReturnCached(i)
          \/ Load(i)
          \/ ReturnStale(i)
          \/ WriteData(i)
          \/ WriteExpiry(i)

ConcSpec == Init /\ [][ConcNext]_vars

\* ----------------------------------------------- _build_policy on its own

\* A method ARN arn:aws:execute-api:region:account:apiId/stage/METHOD/path.
Arn(account, api, stage, method, path) ==
    <<"arn", ":", "aws", ":", "execute-api", ":", "us-east-1", ":", account, ":",
      api, "/", stage, "/", method, "/", path>>

\* Method ARNs of two APIs, two stages and two accounts.
MethodArns ==
    { Arn("123456789012", "api1", "prod", "GET", "products"),
      Arn("123456789012", "api1", "prod", "POST", "orders"),
      Arn("123456789012", "api1", "dev", "GET", "products"),
      Arn("123456789012", "api2", "prod", "GET", "products"),
      Arn("999999999999", "api1", "prod", "GET", "products") }

\* Resource strings _build_policy can be handed: method ARNs, an ARN whose
\* path holds a colon, ARNs cut short, the "*" default of line 154, "".
Resources ==
    MethodArns
    \cup { FullArn \o <<":", "v2">>,
           SubSeq(FullArn, 1, 11),
           SubSeq(FullArn, 1, 13),
           SubSeq(FullArn, 1, 9),
           <<"*">>,
           <<>> }

BuildArgs ==
    [ principal_id : {"tenantA", "unknown"},
      effect : {"Allow", "Deny"},
      resource : Resources,
      usage_key : {None, "", "key-789"},
      tenant_id : {None, "", "tenantA"} ]

\* Any arguments, not yet applied.
BuildInit ==
    /\ ProcessInit
    /\ build \in {[NoBuild EXCEPT !.args = a] : a \in BuildArgs}
    /\ table = {}
    /\ down = NoDown

\* The call _build_policy(principal_id, effect, resource, usage_key, tenant_id).
BuildPolicy ==
    /\ ~build.done
    /\ build' = [build EXCEPT
                    !.done = TRUE,
                    !.policy = _build_policy(build.args.principal_id, build.args.effect,
                                             build.args.resource, build.args.usage_key,
                                             build.args.tenant_id)]
    /\ UNCHANGED <<now, ticks, _client_tenant_cache, _tenant_api_key_cache,
                   seqVars, concVars, downVars>>

BuildNext == BuildPolicy

BuildSpec == BuildInit /\ [][BuildNext]_vars

\* ------------------------------------------------ shared/lambda_base.py

\* JSON null where the code expects a dict: Python None.
JsonNull == [null |-> TRUE]

\* The exception classes raised by the downstream code and its libraries,
\* each with its base class.
Bases ==
    [ TenantIsolationError |-> "Exception",
      ValueError           |-> "Exception",
      JSONDecodeError      |-> "ValueError",
      LookupError          |-> "Exception",
      KeyError             |-> "LookupError",
      IndexError           |-> "LookupError",
      TypeError            |-> "Exception",
      AttributeError       |-> "Exception",
      ClientError          |-> "Exception",
      Exception            |-> "BaseException" ]

\* isinstance(e, base) for an exception e of class cls.
RECURSIVE IsInstance(_, _)
IsInstance(cls, base) ==
    \/ cls = base
    \/ cls \in DOMAIN Bases /\ IsInstance(Bases[cls], base)

\* How a call ends: it returns value (dumps: json.dumps with DecimalEncoder
\* accepts it) or raises an exception of class raised.
Ok(value) == [raised |-> None, message |-> "", value |-> value, dumps |-> TRUE]
Raise(cls, message) == [raised |-> cls, message |-> message, value |-> EmptyMap, dumps |-> TRUE]

\* Lines 40-70
LambdaResponse_success(data, tenant_id, request_id) ==
    [statusCode |-> 200,
     body |-> [data |-> data, tenantId |-> tenant_id, requestId |-> request_id]]

\* Lines 72-108
LambdaResponse_error(error_type, message, tenant_id, request_id, status_code) ==
    [statusCode |-> status_code,
     body |-> [error |-> error_type, message |-> message,
               tenantId |-> tenant_id, requestId |-> request_id]]

\* extract_tenant_id letting a tenant_id query parameter take precedence.
extract_tenant_id_FromQuery(event) ==
    LET query == DictGet(event, "queryStringParameters", EmptyMap)
        authorizer == DictGet(DictGet(event, "requestContext", EmptyMap),
                              "authorizer", EmptyMap)
        tenant_id == IF "tenant_id" \in DOMAIN query THEN query["tenant_id"]
                     ELSE DictGet(authorizer, "tenant_id", None)
    IN  IF Truthy(tenant_id)
        THEN [raised |-> None, message |-> "", tenant_id |-> tenant_id]
        ELSE [raised |-> "ValueError",
              message |-> "tenant_id not found in authorizer context",
              tenant_id |-> None]

\* Lines 180-188: .get on None raises AttributeError, turned into ValueError.
extract_tenant_id(event) ==
    LET requestContext == DictGet(event, "requestContext", EmptyMap)
        failed == [raised |-> "ValueError", message |-> "Failed to extract tenant_id",
                   tenant_id |-> None]
    IN  IF requestContext = JsonNull THEN failed
        ELSE
        LET authorizer == DictGet(requestContext, "authorizer", EmptyMap)
        IN  IF authorizer = JsonNull THEN failed
            ELSE
            LET tenant_id == DictGet(authorizer, "tenant_id", None)
            IN  IF Truthy(tenant_id)
                THEN [raised |-> None, message |-> "", tenant_id |-> tenant_id]
                ELSE [raised |-> "ValueError",
                      message |-> "tenant_id not found in authorizer context",
                      tenant_id |-> None]

\* Line 201
extract_request_id(event) ==
    DictGet(DictGet(event, "requestContext", EmptyMap), "requestId", "unknown")

\* Lines 296-337: the wrapper up to the call of the handler.  tenant_id and
\* request_id are the locals as the except clauses will find them.
ExtractContext(event) ==
    LET t == extract_tenant_id(event)
    IN  IF t.raised # None
        THEN [raised |-> t.raised, message |-> t.message,
              tenant_id |-> "unknown", request_id |-> "unknown"]
        ELSE IF DictGet(event["requestContext"], "identity", EmptyMap) = JsonNull
        THEN [raised |-> "AttributeError", message |-> "NoneType has no attribute get",
              tenant_id |-> t.tenant_id, request_id |-> extract_request_id(event)]
        ELSE [raised |-> None, message |-> "",
              tenant_id |-> t.tenant_id, request_id |-> extract_request_id(event)]

\* What leaves the wrapper when no except clause matches.
Escaped(cls) == [statusCode |-> -1, body |-> [escaped |-> cls]]

\* ExceptClauses without the KeyError clause.
ExceptClauses_NoKeyError(cls, message, tenant_id, request_id) ==
    IF IsInstance(cls, "TenantIsolationError")
    THEN LambdaResponse_error("Forbidden", "Access denied", tenant_id, request_id, 403)
    ELSE IF IsInstance(cls, "ValueError")
    THEN LambdaResponse_error("BadRequest", message, tenant_id, request_id, 400)
    ELSE LambdaResponse_error("InternalServerError",
                              "An error occurred processing your request",
                              tenant_id, request_id, 500)

\* Lines 359-511: the except clauses, in order.
ExceptClauses(cls, message, tenant_id, request_id) ==
    IF IsInstance(cls, "TenantIsolationError")
    THEN LambdaResponse_error("Forbidden", "Access denied", tenant_id, request_id, 403)
    ELSE IF IsInstance(cls, "ValueError")
    THEN LambdaResponse_error("BadRequest", message, tenant_id, request_id, 400)
    ELSE IF IsInstance(cls, "KeyError")
    THEN LambdaResponse_error("NotFound", "Resource not found", tenant_id, request_id, 404)
    ELSE IF IsInstance(cls, "Exception")
    THEN LambdaResponse_error("InternalServerError",
                              "An error occurred processing your request",
                              tenant_id, request_id, 500)
    ELSE Escaped(cls)

\* What a handler that is not called does.
NotCalled == [out |-> Ok(EmptyMap), table |-> table, reads |-> {}]

\* The tenant identifiers the authorizer forwards.
TenantIds == {"tenantA", "tenantB"}

\* Lines 295-511: wrapper(event, context) around handler_func, which, for
\* the event and each tenant it may be called with, yields its outcome, the
\* table it leaves and the items it read.
wrapper(name, event, handler_func) ==
    LET ctx == ExtractContext(event)
        invoked == ctx.raised = None
        h == IF invoked THEN handler_func[ctx.tenant_id] ELSE NotCalled
        out == IF ~invoked THEN Raise(ctx.raised, ctx.message)
               ELSE IF h.out.raised = None /\ ~h.out.dumps
               THEN Raise("TypeError", "Object is not JSON serializable")
               ELSE h.out
    IN  /\ table' = h.table
        /\ down' =
             [handler |-> name, event |-> event, invoked |-> invoked,
              tenant_id |-> IF invoked THEN ctx.tenant_id ELSE None,
              reads |-> h.reads, raised |-> out.raised,
              response |->
                 IF out.raised = None
                 THEN LambdaResponse_success(out.value, ctx.tenant_id, ctx.request_id)
                 ELSE ExceptClauses(out.raised, out.message, ctx.tenant_id, ctx.request_id)]
        /\ UNCHANGED <<authVars, pureVars>>

\* requestContext objects: with a tenant, without one, with nulls.
AuthorizerContext(tenant_id) ==
    [authorizer |-> [tenant_id |-> tenant_id], requestId |-> "req-1"]

RequestContexts ==
    { AuthorizerContext("tenantA"), AuthorizerContext("tenantB"),
      AuthorizerContext(""),
      [authorizer |-> [tenant_id |-> "tenantA"]],
      [authorizer |-> EmptyMap, requestId |-> "req-1"],
      [authorizer |-> JsonNull, requestId |-> "req-1"],
      [requestId |-> "req-1"],
      [authorizer |-> [tenant_id |-> "tenantA"], requestId |-> "req-1",
       identity |-> JsonNull],
      [authorizer |-> [tenant_id |-> "tenantA"], requestId |-> "req-1",
       identity |-> [sourceIp |-> "10.0.0.1"]] }

\* Events that differ in their authorizer context only.
ContextEvents ==
    { [requestContext |-> rc, httpMethod |-> "GET"] : rc \in RequestContexts }
    \cup { [httpMethod |-> "GET"], [requestContext |-> JsonNull, httpMethod |-> "GET"] }

\* A handler_func of any kind (such as shared/example_handler.py): it
\* returns, or raises an exception of any of the classes.
HandlerOutcomes ==
    { Ok([message |-> "Hello from Lambda!"]),
      [Ok([tags |-> "set()"]) EXCEPT !.dumps = FALSE] }
    \cup { Raise(cls, "it failed") : cls \in DOMAIN Bases }

any_handler ==
    \E event \in ContextEvents, out \in HandlerOutcomes :
       wrapper("any", event,
               [tenant_id \in TenantIds |-> [out |-> out, table |-> table, reads |-> {}]])

\* ------------------------------------------------- the DynamoDB table

\* f'TENANT#{tenant_id}#PRODUCT', f'PRODUCT#{product_id}' and the like.
PartitionKey(tenant_id, kind) == <<"TENANT#", tenant_id, "#", kind>>
SortKey(kind, id) == <<kind, "#", id>>

\* table.query(KeyConditionExpression='PK = :pk')
Query(pk) == {item \in table : item["PK"] = pk}

\* table.get_item(Key={'PK': .., 'SK': ..}): the items found, none or one.
GetItem(pk, sk) == {item \in table : item["PK"] = pk /\ item["SK"] = sk}

\* table.put_item(Item=item): an item with the same key is replaced.
PutItem(item) ==
    {i \in table : ~(i["PK"] = item["PK"] /\ i["SK"] = item["SK"])} \cup {item}

\* What a handler did: its outcome, the table it leaves, the items read.
Did(out, reads) == [out |-> out, table |-> table, reads |-> reads]

\* boto3 raising (throttling, permissions, network).
DbError == Raise("ClientError", "An error occurred calling DynamoDB")

\* A product or order item stored under tenant's partition.
ProductItem(tenant, id, attrs) ==
    [PK |-> PartitionKey(tenant, "PRODUCT"), SK |-> SortKey("PRODUCT", id),
     entityType |-> "PRODUCT", productId |-> id] @@ attrs

OrderItem(tenant, id, attrs) ==
    [PK |-> PartitionKey(tenant, "ORDER"), SK |-> SortKey("ORDER", id),
     entityType |-> "ORDER", orderId |-> id] @@ attrs

\* Items as scripts/seed_dynamodb.py and create_order write them, and items
\* whose tenantId attribute differs from the tenant of their partition or is
\* missing.
SeededItems ==
    { ProductItem("tenantA", "p1", [tenantId |-> "tenantA", price |-> 5]),
      ProductItem("tenantB", "p1", [tenantId |-> "tenantB", price |-> 7]),
      OrderItem("tenantA", "o1", [tenantId |-> "tenantA", productId |-> "p1",
                                  quantity |-> 1, totalPrice |-> 5]) }

ForeignItems ==
    { ProductItem("tenantA", "p2", [tenantId |-> "tenantB", price |-> 3]),
      ProductItem("tenantA", "p3", [price |-> 4]),
      OrderItem("tenantA", "o2", [tenantId |-> "tenantB", productId |-> "p1",
                                  quantity |-> 1, totalPrice |-> 7]) }

Tables == { {}, SeededItems, SeededItems \cup ForeignItems }

\* Lines 230-241 of lambda_base.py
verify_tenant_access(requesting_tenant_id, data_tenant_id) ==
    IF requesting_tenant_id # data_tenant_id
    THEN Raise("TenantIsolationError", "Access denied: Cannot access data from another tenant")
    ELSE Ok(EmptyMap)

\* event.get('pathParameters') or {}
PathParameters(event) ==
    LET p == DictGet(event, "pathParameters", JsonNull)
    IN  IF p = JsonNull THEN EmptyMap ELSE p

\* ----------------------------------------------------- catalog/index.py

\* Lines 126-136
transform_product(item) ==
    [ productId   |-> DictGet(item, "productId", None),
      name        |-> DictGet(item, "name", None),
      description |-> DictGet(item, "description", None),
      price       |-> DictGet(item, "price", None),
      currency    |-> DictGet(item, "currency", "USD"),
      category    |-> DictGet(item, "category", None),
      inStock     |-> DictGet(item, "inStock", TRUE),
      createdAt   |-> DictGet(item, "createdAt", None),
      updatedAt   |-> DictGet(item, "updatedAt", None) ]

\* Lines 28-60.  The list returned is kept as the set of its entries; count
\* is its length.
get_all_products(tenant_id, fails) ==
    IF fails THEN Did(DbError, {})
    ELSE LET products == Query(PartitionKey(tenant_id, "PRODUCT"))
         IN  Did(Ok([products |-> {transform_product(item) : item \in products},
                     count |-> Cardinality(products)]),
                 products)

\* Lines 63-113
catalog_get_product(tenant_id, product_id, fails) ==
    IF ~Truthy(product_id) THEN Did(Raise("ValueError", "Invalid product ID format"), {})
    ELSE IF fails THEN Did(DbError, {})
    ELSE
    LET found == GetItem(PartitionKey(tenant_id, "PRODUCT"), SortKey("PRODUCT", product_id))
    IN  IF found = {} THEN Did(Raise("ValueError", "Product not found"), {})
        ELSE
        LET item == CHOOSE i \in found : TRUE
            v == verify_tenant_access(tenant_id, DictGet(item, "tenantId", ""))
        IN  IF v.raised # None THEN Did(v, found)
            ELSE Did(Ok(transform_product(item)), found)

\* Lines 139-187: lambda_handler of the catalog function.
catalog_lambda_handler(event, tenant_id, fails) ==
    LET http_method == DictGet(event, "httpMethod", "GET")
        product_id == DictGet(PathParameters(event), "productId", None)
    IN  IF http_method = "GET" /\ ~Truthy(product_id)
        THEN get_all_products(tenant_id, fails)
        ELSE IF http_method = "GET"
        THEN catalog_get_product(tenant_id, product_id, fails)
        ELSE Did(Raise("ValueError", "Unsupported HTTP method"), {})

\* Requests of the two tenants to the catalog function.
CatalogRequests ==
    { [httpMethod |-> "GET"],
      [httpMethod |-> "GET", pathParameters |-> JsonNull],
      [pathParameters |-> [productId |-> "p1"]],
      [httpMethod |-> "GET", pathParameters |-> [productId |-> "p2"]],
      [httpMethod |-> "GET", pathParameters |-> [productId |-> "p3"]],
      [httpMethod |-> "GET", pathParameters |-> [productId |-> "p9"]],
      [httpMethod |-> "GET", pathParameters |-> [productId |-> ""]],
      [httpMethod |-> "GET", queryStringParameters |-> [tenant_id |-> "tenantB"]],
      [httpMethod |-> "POST"] }

CatalogEvents ==
    ContextEvents
    \cup { [requestContext |-> AuthorizerContext(t)] @@ r :
              t \in TenantIds, r \in CatalogRequests }

\* One invocation of the catalog function.
catalog ==
    \E event \in CatalogEvents, fails \in BOOLEAN :
       wrapper("catalog", event,
               [tenant_id \in TenantIds |-> catalog_lambda_handler(event, tenant_id, fails)])

\* ------------------------------------------------------- order/index.py

\* A request body that is a str: JSON text standing for the value json, or
\* text that json.loads rejects.
JsonText(json) == [text |-> TRUE, valid |-> TRUE, json |-> json]
NotJson == [text |-> TRUE, valid |-> FALSE, json |-> JsonNull]
IsStr(body) == "text" \in DOMAIN body

\* The values of the fields of order data carry their Python type.
PyInt(n) == [int |-> n]
PyStr(text) == [str |-> text]

\* isinstance(v, int), isinstance(v, str), and the value itself.
IsInt(v) == "int" \in DOMAIN v
IsText(v) == "str" \in DOMAIN v
Py(v) == IF IsInt(v) THEN v.int ELSE v.str

\* Lines 31-63: the exception validate_order raises, if any.  `in` on None
\* raises TypeError.
validate_order(order_data) ==
    IF order_data = JsonNull
    THEN Raise("TypeError", "argument of type NoneType is not iterable")
    ELSE IF \E field \in {"customerId", "productId", "quantity"} : field \notin DOMAIN order_data
    THEN Raise("ValueError", "Missing required field")
    ELSE IF ~IsInt(order_data["quantity"])
    THEN Raise("ValueError", "Quantity must be an integer")
    ELSE IF Py(order_data["quantity"]) <= 0
    THEN Raise("ValueError", "Quantity must be a positive integer")
    ELSE IF ~(IsText(order_data["customerId"]) /\ Truthy(Py(order_data["customerId"])))
    THEN Raise("ValueError", "Invalid customerId")
    ELSE IF ~(IsText(order_data["productId"]) /\ Truthy(Py(order_data["productId"])))
    THEN Raise("ValueError", "Invalid productId")
    ELSE Ok(EmptyMap)

\* order_get_product without the call of verify_tenant_access.
order_get_product_NoTenantCheck(tenant_id, product_id, fails) ==
    IF fails THEN Did(DbError, {})
    ELSE
    LET found == GetItem(PartitionKey(tenant_id, "PRODUCT"), SortKey("PRODUCT", product_id))
    IN  IF found = {} THEN Did(Raise("ValueError", "Product not found"), {})
        ELSE Did(Ok(CHOOSE i \in found : TRUE), found)

\* Lines 66-108: get_product of the order function returns the raw item.
order_get_product(tenant_id, product_id, fails) ==
    IF fails THEN Did(DbError, {})
    ELSE
    LET found == GetItem(PartitionKey(tenant_id, "PRODUCT"), SortKey("PRODUCT", product_id))
    IN  IF found = {} THEN Did(Raise("ValueError", "Product not found"), {})
        ELSE
        LET item == CHOOSE i \in found : TRUE
            v == verify_tenant_access(tenant_id, DictGet(item, "tenantId", ""))
        IN  IF v.raised # None THEN Did(v, found)
            ELSE Did(Ok(item), found)

\* Lines 237-248
transform_order(item) ==
    [ orderId    |-> DictGet(item, "orderId", None),
      tenantId   |-> DictGet(item, "tenantId", None),
      customerId |-> DictGet(item, "customerId", None),
      productId  |-> DictGet(item, "productId", None),
      quantity   |-> DictGet(item, "quantity", None),
      totalPrice |-> DictGet(item, "totalPrice", None),
      currency   |-> DictGet(item, "currency", "USD"),
      status     |-> DictGet(item, "status", None),
      createdAt  |-> DictGet(item, "createdAt", None),
      updatedAt  |-> DictGet(item, "updatedAt", None) ]

\* Lines 145-159: the item create_order builds.
NewOrder(tenant_id, order_id, order_data, product) ==
    [ PK |-> PartitionKey(tenant_id, "ORDER"),
      SK |-> SortKey("ORDER", order_id),
      tenantId |-> tenant_id,
      entityType |-> "ORDER",
      orderId |-> order_id,
      customerId |-> Py(order_data["customerId"]),
      productId |-> Py(order_data["productId"]),
      quantity |-> Py(order_data["quantity"]),
      totalPrice |-> DictGet(product, "price", 0) * Py(order_data["quantity"]),
      currency |-> DictGet(product, "currency", "USD"),
      status |-> "PENDING",
      createdAt |-> "utcnow",
      updatedAt |-> "utcnow" ]

\* Lines 111-171.  order_id is the uuid4 drawn; fails_at numbers the
\* DynamoDB call that raises (0: none, 1: get_item, 2: put_item).
create_order(tenant_id, order_data, order_id, fails_at) ==
    LET v == validate_order(order_data)
    IN  IF v.raised # None THEN Did(v, {})
        ELSE
        LET p == order_get_product(tenant_id, Py(order_data["productId"]), fails_at = 1)
            order == NewOrder(tenant_id, order_id, order_data, p.out.value)
        IN  IF p.out.raised # None THEN p
            ELSE IF fails_at = 2 THEN Did(DbError, p.reads)
            ELSE [out |-> Ok(transform_order(order)), table |-> PutItem(order),
                  reads |-> p.reads]

\* Lines 174-224
get_order(tenant_id, order_id, fails) ==
    IF ~Truthy(order_id) THEN Did(Raise("ValueError", "Invalid order ID format"), {})
    ELSE IF fails THEN Did(DbError, {})
    ELSE
    LET found == GetItem(PartitionKey(tenant_id, "ORDER"), SortKey("ORDER", order_id))
    IN  IF found = {} THEN Did(Raise("ValueError", "Order not found"), {})
        ELSE
        LET item == CHOOSE i \in found : TRUE
            v == verify_tenant_access(tenant_id, DictGet(item, "tenantId", ""))
        IN  IF v.raised # None THEN Did(v, found)
            ELSE Did(Ok(transform_order(item)), found)

\* Lines 250-278.  The list returned is kept as the set of its entries.
get_all_orders(tenant_id, fails) ==
    IF fails THEN Did(DbError, {})
    ELSE LET orders == Query(PartitionKey(tenant_id, "ORDER"))
         IN  Did(Ok([orders |-> {transform_order(item) : item \in orders},
                     count |-> Cardinality(orders)]),
                 orders)

\* Lines 282-346: lambda_handler of the order function.
order_lambda_handler(event, tenant_id, order_id, fails_at) ==
    LET http_method == DictGet(event, "httpMethod", "GET")
        path_order_id == DictGet(PathParameters(event), "orderId", None)
        body == DictGet(event, "body", JsonText(EmptyMap))
    IN  IF http_method = "POST" /\ ~Truthy(path_order_id)
        THEN IF IsStr(body) /\ ~body.valid
             THEN Did(Raise("ValueError", "Invalid JSON in request body"), {})
             ELSE create_order(tenant_id, IF IsStr(body) THEN body.json ELSE body,
                               order_id, fails_at)
        ELSE IF http_method = "GET" /\ ~Truthy(path_order_id)
        THEN get_all_orders(tenant_id, fails_at = 1)
        ELSE IF http_method = "GET"
        THEN get_order(tenant_id, path_order_id, fails_at = 1)
        ELSE Did(Raise("ValueError", "Unsupported HTTP method"), {})

\* Order data sent as the body of POST /orders.
OrderData(customer_id, product_id, quantity) ==
    [customerId |-> customer_id, productId |-> product_id, quantity |-> quantity]

Order(customer_id, product_id, quantity) ==
    OrderData(PyStr(customer_id), PyStr(product_id), PyInt(quantity))

\* (A sequence: its members hold values of different Python types.)
OrderBodies ==
    << JsonText(Order("c1", "p1", 2)),
      JsonText(Order("c1", "p2", 1)),
      JsonText(Order("c1", "p3", 1)),
      JsonText(Order("c1", "p9", 1)),
      JsonText(Order("c1", "p1", 0)),
      JsonText(OrderData(PyStr("c1"), PyStr("p1"), PyStr("2"))),
      JsonText(Order("", "p1", 1)),
      JsonText(Order("c1", "", 1)),
      JsonText([customerId |-> PyStr("c1"), quantity |-> PyInt(1)]),
      JsonText(JsonNull),
      NotJson,
      JsonNull,
      Order("c2", "p1", 1),
      JsonText(OrderData(PyInt(7), PyStr("p1"), PyInt(1))) >>

\* Requests to the order function.
OrderRequests ==
    [i \in 1..Len(OrderBodies) |-> [httpMethod |-> "POST", body |-> OrderBodies[i]]]
    \o << [httpMethod |-> "POST"],
          [httpMethod |-> "POST", pathParameters |-> [orderId |-> "o1"]],
          [httpMethod |-> "GET"],
          [httpMethod |-> "GET", pathParameters |-> [orderId |-> "o1"]],
          [httpMethod |-> "GET", pathParameters |-> [orderId |-> "o2"]],
          [httpMethod |-> "GET", pathParameters |-> [orderId |-> "o9"]],
          [httpMethod |-> "GET", pathParameters |-> [orderId |-> "uuid-1"]],
          [httpMethod |-> "DELETE", pathParameters |-> [orderId |-> "o1"]] >>

\* The tenants forwarded to the order function ("": none).
OrderTenants == TenantIds \cup {""}

\* The values uuid.uuid4() yields, in the order it yields them.
Uuids == <<"uuid-1", "uuid-2", "uuid-3">>

\* The orders create_order has stored.
Created == {item \in table : \E n \in 1..Len(Uuids) : item["SK"] = SortKey("ORDER", Uuids[n])}

\* One invocation of the order function.
order ==
    \E t \in OrderTenants, i \in 1..Len(OrderRequests), fails_at \in 0..2 :
       /\ OrderRequests[i].httpMethod = "POST" => Cardinality(Created) < MaxCreated
       /\ LET event == [requestContext |-> AuthorizerContext(t)] @@ OrderRequests[i]
          IN  wrapper("order", event,
                      [tenant_id \in TenantIds |->
                          order_lambda_handler(event, tenant_id,
                                               Uuids[Cardinality(Created) + 1], fails_at)])

DownInit ==
    /\ ProcessInit
    /\ build = NoBuild
    /\ table \in Tables
    /\ down = NoDown

DownNext == any_handler \/ catalog \/ order

DownSpec == DownInit /\ [][DownNext]_vars

\* ------------------------------------------------------------- typing

Effect(policy) == policy.policyDocument.Statement[1].Effect

TypeOK ==
    /\ now >= InitTime
    /\ ticks \in 0..MaxTicks
    /\ calls \in 0..MaxCalls
    /\ \A i \in Threads : threads[i].id <= calls
    /\ response.kind \in {"none", "raised", "returned"}
    /\ response.kind = "returned" => Effect(response.policy) \in {"Allow", "Deny"}
    /\ down.handler \in {"none", "any", "catalog", "order"}
    /\ down.raised \in {None} \cup DOMAIN Bases
    /\ Cardinality(Created) <= MaxCreated
    /\ \A item \in table : Cardinality(GetItem(item["PK"], item["SK"])) = 1

\* ------------------------------------------------- vocabulary of the claims

\* A step taken by lambda_handler (the clock stands still during a request).
HandlerStep == ticks' = ticks

\* The mappings the two Mapping Caches handed to the latest request.
ServedClientTenant == response.gets["client_tenant"].ret
ServedTenantApiKey == response.gets["tenant_api_key"].ret

\* The text is a token whose signature, expiry and token-type all pass at
\* clock reading t against the key set held in memo.
ValidToken(token_str, t, memo) ==
    /\ Len(token_str) = 1
    /\ token_str[1] \in DOMAIN TokenTable
    /\ LET jwt == TokenTable[token_str[1]]
       IN  /\ memo.cached
           /\ "kid" \in DOMAIN jwt.header
           /\ jwt.header["alg"] = "RS256"
           /\ \E i \in 1..Len(memo.value.keys) :
                 /\ memo.value.keys[i].kid = jwt.header["kid"]
                 /\ memo.value.keys[i].n = jwt.signedBy
           /\ "exp" \in DOMAIN jwt.claims => jwt.claims["exp"] > t
           /\ "token_use" \in DOMAIN jwt.claims
           /\ jwt.claims["token_use"] = "access"

\* The latest request carried a valid token.
ValidRequest ==
    /\ response.kind # "none"
    /\ ValidToken(response.token_str, response.at, jwks_memo)

\* The latest request carried a credential that failed validation.
InvalidRequest ==
    /\ response.kind # "none"
    /\ response.token_str # <<>>
    /\ ~ValidToken(response.token_str, response.at, jwks_memo)

\* The caller identity of the latest (valid) request.
Caller == CallerIdentity(TokenTable[response.token_str[1]].claims)

HasKey(policy) == "usageIdentifierKey" \in DOMAIN policy
HasTenant(policy) == "tenant_id" \in DOMAIN policy.context

IsDecision(effect) ==
    /\ response.kind = "returned"
    /\ Effect(response.policy) = effect

\* ------------------------------------------------------------- claims

\* C1: a request with a valid token, whose caller identity the identity->tenant
\* mapping maps to a tenant T and whose T the tenant->rate-limit-key mapping
\* maps to a key K (the mappings being those the caches serve to the request),
\* is answered with Allow, principal T, usageIdentifierKey K and context
\* tenant_id T.
C1_ValidMappedCallerAllowed ==
    LET T == DictGet(ServedClientTenant, Caller, None)
        K == DictGet(ServedTenantApiKey, T, None)
    IN  (ValidRequest /\ Truthy(T) /\ Truthy(K)) =>
            /\ IsDecision("Allow")
            /\ response.policy.principalId = T
            /\ DictGet(response.policy, "usageIdentifierKey", None) = K
            /\ DictGet(response.policy.context, "tenant_id", None) = T

\* The concrete scenario of the specification: abc123 -> tenantA -> key-789.
C1_Witness ==
    /\ ValidRequest
    /\ IsDecision("Allow")
    /\ response.policy.principalId = "tenantA"
    /\ response.policy.usageIdentifierKey = "key-789"

\* C2: every decision returned has, when its effect is Allow, a non-empty
\* usageIdentifierKey and a non-empty context tenant_id, and, when its effect
\* is Deny, no usageIdentifierKey.
C2_DecisionInvariant ==
    response.kind = "returned" =>
        /\ Effect(response.policy) = "Allow" =>
              /\ HasKey(response.policy)
              /\ Truthy(response.policy.usageIdentifierKey)
              /\ HasTenant(response.policy)
              /\ Truthy(response.policy.context["tenant_id"])
        /\ Effect(response.policy) = "Deny" => ~HasKey(response.policy)

\* An Allow issued from cached mappings after earlier requests and refreshes.
C2_Witness ==
    /\ IsDecision("Allow")
    /\ response.policy.principalId = "tenantB"
    /\ response.gets["tenant_api_key"].kind = "hit"
    /\ response.at > InitTime

C5_UnknownCallerDenied ==
    (ValidRequest /\ Caller \notin DOMAIN ServedClientTenant) =>
        /\ IsDecision("Deny")
        /\ response.policy.principalId = IF Caller = "" THEN "unknown" ELSE Caller
        /\ ~HasTenant(response.policy)
        /\ ~HasKey(response.policy)

\* The concrete scenario of the specification: abc123 with no mapping for it.
C5_Witness ==
    /\ ValidRequest
    /\ response.exit = "ResolveTenant"
    /\ response.policy.principalId = "abc123"
    /\ "abc123" \notin DOMAIN ServedClientTenant

\* "Bearer " in any mix of cases.
Upper(ch) ==
    CASE ch = "b" -> "B"
      [] ch = "e" -> "E"
      [] ch = "a" -> "A"
      [] ch = "r" -> "R"
      [] OTHER -> ch

IsSchemeOnly(s) ==
    /\ Len(s) = Len(BearerPrefix)
    /\ \A i \in 1..Len(s) : s[i] \in {BearerPrefix[i], Upper(BearerPrefix[i])}

\* The event has no credential, or one that is empty once the scheme is gone.
NoCredential(event) ==
    \/ "authorizationToken" \notin DOMAIN event
    \/ event["authorizationToken"] = <<>>
    \/ IsSchemeOnly(event["authorizationToken"])

\* C6: for an event without a credential, or whose credential is empty after
\* an optional case-insensitive "Bearer " is stripped, lambda_handler raises
\* at the credential check: no decision, no key-set fetch, no validation, no
\* mapping-cache access, and the three caches are left as they were.
C6_MissingCredentialFaults ==
    [][(HandlerStep /\ NoCredential(response'.event)) =>
          /\ response'.kind = "raised"
          /\ response'.exit = "ExtractCredential"
          /\ response'.policy = NoPolicy
          /\ response'.jwks = "none"
          /\ response'.gets = NoGets
          /\ UNCHANGED <<_client_tenant_cache, _tenant_api_key_cache, jwks_memo>>]_vars

\* "BEARER " alone, sent to a process whose caches are populated.
C6_Witness ==
    /\ response.exit = "ExtractCredential"
    /\ "authorizationToken" \in DOMAIN response.event
    /\ response.event["authorizationToken"] = Scheme(BearerUpper)
    /\ jwks_memo.cached
    /\ DictTruthy(_client_tenant_cache.data)

\* C7: a _get_ssm_json call whose store load fails returns the mapping held
\* before the call (empty if none was loaded), leaves data and expires_at as
\* they were, and leaves the cache in a state in which a get, now or at any
\* later clock reading, goes to the store again.
C7_FailedRefreshServesStale ==
    /\ [][HandlerStep =>
            \A c \in CacheNames :
               response'.gets[c].kind = "failed" =>
                  /\ response'.gets[c].ret = Cache(c).data
                  /\ Cache(c)' = Cache(c)]_vars
    /\ [](\A c \in CacheNames :
            response.gets[c].kind = "failed" => ~CacheFresh(Cache(c), now))

\* A stale identity->tenant mapping served after a failed refresh.
C7_Witness ==
    /\ response.gets["client_tenant"].kind = "failed"
    /\ DictTruthy(response.gets["client_tenant"].ret)
    /\ response.at >= InitTime + _CACHE_TTL_SECONDS

\* C8 as stated: once a mapping has been loaded, a get made while the clock
\* is before expires_at returns it without a store call.
C8_Original_NoStoreCallWithinTtl ==
    [][HandlerStep =>
         \A c \in CacheNames :
            (/\ response'.gets[c].kind # "none"
             /\ Cache(c).expires_at # 0
             /\ now < Cache(c).expires_at) =>
                /\ response'.gets[c].store_calls = 0
                /\ response'.gets[c].ret = Cache(c).data]_vars

\* C8 as amended: once a non-empty mapping has been loaded, a get made while
\* the clock is before expires_at returns it without a store call; a get made
\* with the clock at or after expires_at makes exactly one store call.
C8_CacheRoundTrip ==
    [][HandlerStep =>
         \A c \in CacheNames :
            response'.gets[c].kind # "none" =>
               /\ (DictTruthy(Cache(c).data) /\ now < Cache(c).expires_at) =>
                     /\ response'.gets[c].store_calls = 0
                     /\ response'.gets[c].ret = Cache(c).data
               /\ now >= Cache(c).expires_at =>
                     response'.gets[c].store_calls = 1]_vars

\* A mapping loaded earlier is served from memory one second before expiry.
C8_Witness ==
    \E c \in CacheNames :
       /\ response.gets[c].kind = "hit"
       /\ response.at + 1 = Cache(c).expires_at

\* C9: a _get_ssm_json call whose store load succeeds leaves data equal to
\* the mapping loaded and expires_at equal to the clock reading of the call
\* plus 300, and returns the mapping loaded.
C9_SuccessfulRefresh ==
    \A c \in CacheNames :
       response.gets[c].kind = "loaded" =>
          /\ Cache(c).data = response.gets[c].store
          /\ Cache(c).expires_at = response.at + 300
          /\ response.gets[c].ret = response.gets[c].store

\* A non-empty tenant->key mapping loaded a TTL or more after the start.
C9_Witness ==
    /\ response.gets["tenant_api_key"].kind = "loaded"
    /\ DictTruthy(response.gets["tenant_api_key"].store)
    /\ response.at >= InitTime + _CACHE_TTL_SECONDS

\* C10: when requests are interleaved, a request that has read both fields
\* of a cache at line 48 has read a mapping and an expiry written by the same
\* load (or both as constructed).
C10_ReaderSeesMatchingPair ==
    \A i \in Threads :
       (threads[i].obs.data # NoTag /\ threads[i].obs.expires_at # NoTag) =>
           threads[i].obs.data = threads[i].obs.expires_at

\* The key id named by the header of the latest request's token, None when
\* the credential is not a token or its header names none.
RequestKid(token_str) ==
    IF Len(token_str) = 1 /\ token_str[1] \in DOMAIN TokenTable
    THEN DictGet(TokenTable[token_str[1]].header, "kid", None)
    ELSE None

\* The key ids of a key set.
Kids(jwks) == {jwks.keys[i].kid : i \in 1..Len(jwks.keys)}

\* C11: once a key-set fetch has succeeded the memo never changes and no
\* later request makes a fetch; a token whose key id is absent from the
\* memoized set is turned away with KeyNotFound, the set being served from
\* the memo, whatever the signer publishes by then.
C11_KeySetFetchedOnce ==
    [][jwks_memo.cached =>
          /\ jwks_memo' = jwks_memo
          /\ HandlerStep =>
                /\ response'.jwks \in {"none", "cached"}
                /\ (/\ RequestKid(response'.token_str) # None
                    /\ RequestKid(response'.token_str) \notin Kids(jwks_memo.value)) =>
                       /\ response'.kind = "raised"
                       /\ response'.error = "KeyNotFound"
                       /\ response'.jwks = "cached"]_vars

\* A token signed with the rotated-in key k2 meets a memo fetched before the
\* rotation.
C11_Witness ==
    /\ response.token_str = <<"jwtRotated">>
    /\ response.error = "KeyNotFound"
    /\ response.jwks = "cached"
    /\ Kids(jwks_memo.value) = {"k1"}

\* C12: a failed key-set fetch is not remembered: the request that made it is
\* turned away at validation and the memo stays empty, so that every request
\* needing a key while the memo is empty attempts the fetch; a fetch that
\* succeeds fills the memo with the set fetched.
C12_FetchFailureNotCached ==
    [][(HandlerStep /\ ~jwks_memo.cached /\ RequestKid(response'.token_str) # None) =>
          /\ response'.jwks \in {"fetched", "failed"}
          /\ response'.jwks = "failed" =>
                /\ jwks_memo' = jwks_memo
                /\ response'.kind = "raised"
                /\ response'.exit = "ValidateToken"
                /\ response'.error = "KeySetUnavailable"
          /\ response'.jwks = "fetched" =>
                /\ jwks_memo'.cached
                /\ jwks_memo'.value \in KeySets]_vars

\* A fetch that failed on a request made after the clock had advanced.
C12_Witness ==
    /\ response.jwks = "failed"
    /\ response.error = "KeySetUnavailable"
    /\ ~jwks_memo.cached
    /\ response.at > InitTime

\* A step of interleaved request i inside a _get_ssm_json call on the cache
\* whose dict is own: the other dict is left alone, and what the call returns
\* is the mapping held in own or the mapping it loaded from own's path.
IsolatedStep(i, own, other, path) ==
    threads'[i] # threads[i] =>
       /\ other' = other
       /\ own'.data \in StoreContents(path)
       /\ threads'[i].pc = "idle" =>
             /\ threads'[i].ret \in {own.data, threads[i].data}
             /\ threads'[i].ret \in StoreContents(path)

\* C13: the two mapping caches share no state: every step of a get or
\* refresh on one of them, successful or failed, leaves the other's data and
\* expires_at unchanged, and a get on one returns only a mapping held by, or
\* loaded for, that one.
C13_CachesShareNoState ==
    [][\A i \in Threads :
          /\ (~At(i, "idle") /\ threads[i].c = "client_tenant") =>
                IsolatedStep(i, _client_tenant_cache, _tenant_api_key_cache,
                             "client_tenant")
          /\ (~At(i, "idle") /\ threads[i].c = "tenant_api_key") =>
                IsolatedStep(i, _tenant_api_key_cache, _client_tenant_cache,
                             "tenant_api_key")]_vars

\* Both caches populated, each by its own call at its own time.
C13_Witness ==
    /\ DictTruthy(_client_tenant_cache.data)
    /\ DictTruthy(_tenant_api_key_cache.data)
    /\ written["client_tenant"].expires_at # written["tenant_api_key"].expires_at
    /\ _client_tenant_cache.expires_at # _tenant_api_key_cache.expires_at
    /\ \A i \in Threads : At(i, "idle")

\* The latest request consulted the named mapping cache.
Consulted(c) == response.gets[c].kind # "none"

\* C14: the steps of a request depend on one another in the order
\* ExtractCredential, ValidateToken, ResolveTenant, ResolveRateLimitKey: no
\* key set is looked up for an empty credential; the identity->tenant cache
\* is consulted only for a valid token, never for one that failed
\* validation; the tenant->rate-limit-key cache is consulted only after the
\* identity->tenant cache has named a tenant for the caller, never for an
\* unknown caller; no cache makes more than one store call per request; and
\* the request ends at the first step that fails.
C14_StepsInOrder ==
    LET T == DictGet(ServedClientTenant, Caller, None)
    IN  response.kind # "none" =>
          /\ response.token_str = <<>> =>
                (response.exit = "ExtractCredential" /\ response.jwks = "none")
          /\ ~ValidRequest =>
                (response.kind = "raised" /\ \A c \in CacheNames : ~Consulted(c))
          /\ ValidRequest => Consulted("client_tenant")
          /\ (ValidRequest /\ T \in {None, ""}) =>
                (response.exit = "ResolveTenant" /\ ~Consulted("tenant_api_key"))
          /\ (ValidRequest /\ T \notin {None, ""}) =>
                (Consulted("tenant_api_key")
                 /\ response.exit \in {"ResolveRateLimitKey", "Allow"})
          /\ \A c \in CacheNames : response.gets[c].store_calls <= 1

\* A caller mapped to the empty tenant: the identity->tenant mapping was
\* loaded for the request, the tenant->rate-limit-key cache was not touched.
C14_Witness ==
    /\ ValidRequest
    /\ Caller = "sub1"
    /\ DictGet(ServedClientTenant, "sub1", None) = ""
    /\ response.gets["client_tenant"].kind = "loaded"
    /\ ~Consulted("tenant_api_key")
    /\ _tenant_api_key_cache = NewCache

\* What the caller of lambda_handler gets back: the exception raised or the
\* policy returned.  What was printed is not part of it.
Outcome(r) == [kind |-> r.kind, fault |-> r.fault, policy |-> r.policy]

\* The one outcome of a credential that fails validation.
InvalidToken == [kind |-> "raised", fault |-> "Unauthorized", policy |-> NoPolicy]

\* C15: every request whose non-empty credential fails validation, at
\* whatever step (header parsing, key lookup, signature, expiry, token type),
\* gets one and the same outcome, which names no step; so the outcomes of
\* any two such requests are identical.
C15_FailuresIndistinguishable ==
    InvalidRequest => Outcome(response) = InvalidToken

\* A forged signature: the step that failed is printed, not returned.
C15_Witness ==
    /\ InvalidRequest
    /\ response.error = "InvalidSignature"
    /\ response.fault = "Unauthorized"

\* The resource pattern of a policy.
Resource(policy) == policy.policyDocument.Statement[1].Resource

\* A pattern ending in "*" covers the ARNs that start with what precedes it.
Covers(pattern, arn) ==
    /\ Len(pattern) >= 1
    /\ pattern[Len(pattern)] = "*"
    /\ StartsWith(arn, SubSeq(pattern, 1, Len(pattern) - 1))

\* Positions in a method ARN: account, API id, stage.
ArnAccount(arn) == arn[9]
ArnApi(arn) == arn[11]
ArnStage(arn) == arn[13]

\* Number of colon-separated segments, counted on the separators.
Segments(s) == Cardinality({i \in 1..Len(s) : s[i] = ":"}) + 1

C18_Original_KeyOnlyForAllow ==
    build.done =>
       (HasKey(build.policy) => build.args.effect = "Allow")

\* C18 as amended: whatever the arguments, a policy carries usageIdentifierKey
\* exactly when a non-empty usage_key is supplied, with that value, whether
\* its effect is Allow or Deny.
C18_KeyFollowsArgument ==
    build.done =>
       /\ HasKey(build.policy) <=> build.args.usage_key \notin {None, ""}
       /\ HasKey(build.policy) => build.policy.usageIdentifierKey = build.args.usage_key
       /\ Effect(build.policy) = build.args.effect

\* A Deny built with a usage_key.
C18_Witness ==
    /\ build.done
    /\ build.args.effect = "Deny"
    /\ build.args.usage_key = "key-789"
    /\ HasKey(build.policy)

\* The claims of the latest request's token.
RequestClaims == TokenTable[response.token_str[1]].claims

\* The identity the claim names for a set of claims.
ClaimedIdentity(claims) ==
    IF "client_id" \in DOMAIN claims /\ claims["client_id"] # ""
    THEN claims["client_id"]
    ELSE IF "sub" \in DOMAIN claims THEN claims["sub"]
    ELSE ""

\* C19: the identity looked up in the identity->tenant mapping is the
\* client_id claim when present and non-empty, else the sub claim, else "":
\* a valid request is answered as the lookup of that identity dictates (a
\* Deny naming that identity, or "unknown" for "", when the mapping served
\* has no tenant for it; otherwise a decision whose principal is the tenant
\* mapped to it), so sub plays no part when a non-empty client_id exists.
C19_IdentityIsClientIdThenSub ==
    ValidRequest =>
       LET id == ClaimedIdentity(RequestClaims)
           T == DictGet(ServedClientTenant, id, None)
       IN  /\ T \in {None, ""} =>
                /\ response.exit = "ResolveTenant"
                /\ response.policy.principalId = IF id = "" THEN "unknown" ELSE id
           /\ T \notin {None, ""} =>
                /\ response.exit \in {"ResolveRateLimitKey", "Allow"}
                /\ response.policy.principalId = T

\* An empty client_id next to a sub: the sub is looked up and found.
C19_Witness ==
    /\ ValidRequest
    /\ response.token_str = <<"jwtEmptyId">>
    /\ DictGet(ServedClientTenant, "sub1", None) = "tenantA"
    /\ response.policy.principalId = "tenantA"

\* C16 as stated: whatever the table holds, every item a downstream
\* operation reads on behalf of a tenant (get_product, get_order,
\* get_all_products, get_all_orders, the product lookup of create_order) has
\* its tenantId compared with the forwarded tenant: when an item read has
\* another tenantId, or none, the response is 403 Forbidden and not the item.
C16_ReadsCheckTenant ==
    down.invoked =>
       \A item \in down.reads :
          DictGet(item, "tenantId", "") # down.tenant_id =>
             /\ down.raised = "TenantIsolationError"
             /\ down.response.statusCode = 403

\* The exception classes the claim names, and the others.
BadRequestClasses == {"ValueError", "JSONDecodeError"}
OtherClasses ==
    {"LookupError", "IndexError", "TypeError", "AttributeError", "ClientError",
     "Exception"}

\* C20: every invocation through lambda_handler_wrapper ends in a response
\* object, never in an exception: status 200 when nothing was raised, 403
\* for TenantIsolationError, 400 for ValueError (subclasses included, and the
\* ValueError of a failed tenant extraction), 404 for KeyError, 500 for every
\* other exception class.
C20_WrapperMapsExceptions ==
    down.handler # "none" =>
       /\ down.response.statusCode \in {200, 400, 403, 404, 500}
       /\ down.raised = None <=> down.response.statusCode = 200
       /\ down.raised = "TenantIsolationError" <=> down.response.statusCode = 403
       /\ down.raised \in BadRequestClasses <=> down.response.statusCode = 400
       /\ down.raised = "KeyError" <=> down.response.statusCode = 404
       /\ down.raised \in OtherClasses <=> down.response.statusCode = 500
       /\ ~down.invoked => down.raised \in {"ValueError", "AttributeError"}

\* A handler raising KeyError is answered with 404 Not Found.
C20_Witness ==
    /\ down.invoked
    /\ down.raised = "KeyError"
    /\ down.response.statusCode = 404
    /\ down.response.body["error"] = "NotFound"

\* The tenant_id the authorizer context of an event carries (None: it
\* carries none); nothing else of the event is looked at.
ContextTenant(event) ==
    IF "requestContext" \notin DOMAIN event \/ event["requestContext"] = JsonNull
    THEN None
    ELSE LET rc == event["requestContext"]
         IN  IF "authorizer" \notin DOMAIN rc \/ rc["authorizer"] = JsonNull
             THEN None
             ELSE IF "tenant_id" \in DOMAIN rc["authorizer"]
             THEN rc["authorizer"]["tenant_id"]
             ELSE None

\* The same event with another body, other path parameters and other query
\* parameters (none at all).
WithoutParameters(event) ==
    [k \in DOMAIN event \ {"body", "pathParameters", "queryStringParameters"} |-> event[k]]

\* C21: the wrapped handler is invoked only when the authorizer context of
\* the event carries a non-empty tenant_id; the tenant passed to the handler
\* and echoed in the response is exactly that value, which depends on the
\* authorizer context alone, not on body, path or query parameters; when the
\* tenant_id is absent or empty the handler is not invoked and the response
\* is a 400 with tenantId "unknown".
C21_TenantFromAuthorizerContext ==
    down.handler # "none" =>
       LET t == ContextTenant(WithoutParameters(down.event))
       IN  /\ down.invoked => (t # None /\ t # "" /\ down.tenant_id = t)
           /\ (t # None /\ t # "") => down.response.body.tenantId = t
           /\ (t = None \/ t = "") =>
                 /\ ~down.invoked
                 /\ down.response.statusCode = 400
                 /\ down.response.body.tenantId = "unknown"

\* A request of tenantA naming tenantB in a query parameter is processed for
\* tenantA.
C21_Witness ==
    /\ down.handler = "catalog"
    /\ down.invoked
    /\ "queryStringParameters" \in DOMAIN down.event
    /\ down.event["queryStringParameters"]["tenant_id"] = "tenantB"
    /\ down.tenant_id = "tenantA"
    /\ down.response.statusCode = 200
    /\ down.response.body.tenantId = "tenantA"

\* The entry key -> value is an entry of the mapping.
HasEntry(mapping, key, value) == key \in DOMAIN mapping /\ mapping[key] = value

Age(rec, c, t) == t - rec[c]

C24_EmptyMappingLoad ==
    [][HandlerStep =>
         /\ \A c \in CacheNames :
               LET g == response'.gets[c]
               IN  /\ (g.kind = "loaded" /\ g.store = EmptyMap) =>
                         /\ Cache(c)'.data = EmptyMap
                         /\ g.ret = EmptyMap
                   /\ (g.kind # "none" /\ Cache(c).data = EmptyMap) =>
                         g.store_calls = 1
         /\ (\E c \in CacheNames :
                response'.gets[c].kind # "none" /\ response'.gets[c].ret = EmptyMap) =>
               /\ IsDecision("Deny")'
               /\ response'.gets["client_tenant"].ret = EmptyMap =>
                     /\ response'.exit = "ResolveTenant"
                     /\ response'.policy.principalId \in {Caller', "unknown"}
                     /\ ~HasTenant(response'.policy)]_vars

\* The empty identity->tenant mapping, loaded a TTL or more after the start,
\* is held with an expiry still ahead, and the latest request went to the
\* store for it all the same.
C24_Witness ==
    /\ response.gets["client_tenant"].kind = "failed"
    /\ Cache("client_tenant").data = EmptyMap
    /\ installed["client_tenant"] >= InitTime + _CACHE_TTL_SECONDS
    /\ response.at < Cache("client_tenant").expires_at
    /\ IsDecision("Deny")

\* No interleaved request is inside _get_ssm_json.
AllIdle == \A i \in Threads : At(i, "idle")

\* Request i executes line 58 / returns from _get_ssm_json in this step.
WritesData(i) == At(i, "L58") /\ threads'[i].pc = "L59"
Returns(i) == ~At(i, "idle") /\ threads'[i].pc = "idle"

\* Once the interleaved refreshes are over, the data of each cache is a
\* whole mapping one of the successful loads returned (the initial empty
\* mapping if there was none); every write of line 58 leaves the data equal
\* to the whole mapping the writing request loaded, and nothing else changes
\* the data; every get returns a whole loaded mapping or the empty mapping.
WholeMappings ==
    /\ [](AllIdle =>
            \A c \in CacheNames :
               IF loads[c] = {} THEN Cache(c).data = EmptyMap
               ELSE Cache(c).data \in loads[c])
    /\ [][\A c \in CacheNames :
            /\ \A i \in Threads :
                  (WritesData(i) /\ threads[i].c = c) =>
                     /\ Cache(c)'.data = threads[i].data
                     /\ threads[i].data \in loads[c]
            /\ Cache(c)'.data # Cache(c).data =>
                  \E i \in Threads : WritesData(i) /\ threads[i].c = c]_vars
    /\ [][\A i \in Threads :
            Returns(i) => threads'[i].ret \in loads[threads[i].c] \cup {EmptyMap}]_vars

\* C25 as stated: concurrent refreshes are last-writer-wins over whole
\* mappings, and once they are over the cached data is never empty when at
\* least one load returned a non-empty mapping.
C25_Original_NeverEmptiedByRefresh ==
    /\ WholeMappings
    /\ [](AllIdle =>
            \A c \in CacheNames :
               (\E m \in loads[c] : DictTruthy(m)) => DictTruthy(Cache(c).data))

\* C25 as amended: concurrent refreshes are last-writer-wins over whole
\* mappings; once they are over the cached data is the whole result of the
\* load whose write of line 58 came last, and it is empty exactly when that
\* load returned the empty mapping (or no load succeeded), whatever the other
\* loads returned.
C25_LastWriterWins ==
    /\ WholeMappings
    /\ [](AllIdle =>
            \A c \in CacheNames :
               ~DictTruthy(Cache(c).data) => (loads[c] = {} \/ EmptyMap \in loads[c]))

\* Two refreshes of the identity->tenant cache have interleaved their writes;
\* one loaded a non-empty mapping, the other the empty one, which is what the
\* cache holds.
C25_Witness ==
    /\ AllIdle
    /\ calls = 2
    /\ Cardinality(loads["client_tenant"]) = 2
    /\ written["client_tenant"].data # written["client_tenant"].expires_at
    /\ Cache("client_tenant").data = EmptyMap

\* The order data a POST /orders event carries: its body, parsed when it is
\* JSON text; JsonNull when there is none to be had.
PostedOrder(event) ==
    IF "body" \notin DOMAIN event THEN EmptyMap
    ELSE IF ~IsStr(event["body"]) THEN event["body"]
    ELSE IF event["body"].valid THEN event["body"].json
    ELSE JsonNull

\* Order data that order validation accepts: the three fields are there,
\* quantity is a positive integer, customerId and productId are non-empty
\* strings.
AcceptableOrder(data) ==
    /\ data # JsonNull
    /\ {"customerId", "productId", "quantity"} \subseteq DOMAIN data
    /\ IsInt(data["quantity"]) /\ data["quantity"].int > 0
    /\ \A field \in {"customerId", "productId"} :
          IsText(data[field]) /\ data[field].str # ""

\* The products stored for the tenant under the product id.
ProductsOf(items, tenant, product_id) ==
    { item \in items : /\ item["PK"] = <<"TENANT#", tenant, "#", "PRODUCT">>
                       /\ item["SK"] = <<"PRODUCT", "#", product_id>> }

\* Stored tenantId equals the tenant in the partition key.
TenantMatchesPartition(item) ==
    "tenantId" \in DOMAIN item /\ item["PK"][2] = item["tenantId"]

\* C26: a step changes the table only by an order creation (POST to the
\* order function without an order id) whose order data passes validation and
\* whose product is found in the caller's partition with the caller's
\* tenantId; it then adds exactly one record and removes none, the record has
\* tenantId equal to the caller's tenant and the partition key of that
\* tenant's orders; and if every record had its partition's tenantId before
\* the step, every record has afterwards.
C26_OrderCreationWrites ==
    [][/\ table' # table =>
            LET event == down'.event
                tenant == ContextTenant(event)
                data == PostedOrder(event)
            IN  /\ down'.handler = "order"
                /\ event["httpMethod"] = "POST"
                /\ "pathParameters" \notin DOMAIN event
                /\ down'.invoked
                /\ AcceptableOrder(data)
                /\ \E product \in ProductsOf(table, tenant, data["productId"].str) :
                      /\ "tenantId" \in DOMAIN product
                      /\ product["tenantId"] = tenant
                /\ table \subseteq table'
                /\ Cardinality(table' \ table) = 1
                /\ \A record \in table' \ table :
                      /\ record["tenantId"] = tenant
                      /\ record["PK"] = <<"TENANT#", tenant, "#", "ORDER">>
                      /\ record["productId"] = data["productId"].str
       /\ (\A item \in table : TenantMatchesPartition(item)) =>
             (\A item \in table' : TenantMatchesPartition(item))]_vars

\* tenantB has created an order for its product p1 and been answered 200
\* with it.
C26_Witness ==
    /\ down.handler = "order"
    /\ down.tenant_id = "tenantB"
    /\ down.response.statusCode = 200
    /\ \E record \in Created :
          /\ record["tenantId"] = "tenantB"
          /\ record["productId"] = "p1"
          /\ record["quantity"] = 2
          /\ record["totalPrice"] = 14
          /\ down.response.body.data = transform_order(record)

====
